---- MODULE Spec2Model ----
(***************************************************************************)
(* RunPodManager (src/cli.py): the startup command built by create_pod,    *)
(* the provisioning wait, the extraction of the public endpoint, the SSH   *)
(* config that is written, and list_pods.                                  *)
(*                                                                         *)
(* A Python string is a sequence of tokens.  The characters the code or    *)
(* the shell treats specially (";", " ", "'", the decimal digits) are      *)
(* always tokens of their own; a run of other characters is one token.     *)
(***************************************************************************)
EXTENDS Integers, Sequences, FiniteSets, TLC

VARIABLES
    pc,                 \* position of the running method
    args,               \* create_pod parameter args
    runtime,            \* create_pod parameter runtime (minutes)
    volume_mount_path,  \* create_pod parameter volume_mount_path
    update_ssh_config,  \* create_pod parameter update_ssh_config
    forward_agent,      \* create_pod parameter forward_agent
    docker_args,        \* the startup command handed to runpod.create_pod
    pod_id,             \* id returned by runpod.create_pod
    pod_host_id,        \* machine.podHostId returned by runpod.create_pod
    pod_host_ids,       \* self.pod_host_ids
    i,                  \* the attempt counter of the wait loop
    pod,                \* the last response of runpod.get_pod
    ip,                 \* public_ip[0].get("ip")
    port,               \* public_ip[0].get("publicPort")
    ssh_file,           \* contents of ~/.ssh/runpod_config (lines)
    error,              \* the exception the method ended with, or NoError
    raised,             \* the exception the provider client raised, or NoError
    creates,            \* number of runpod.create_pod calls made
    polls,              \* number of runpod.get_pod calls made
    sleeps,             \* number of time.sleep calls made
    elapsed,            \* seconds slept
    writes,             \* number of write_text calls made
    pods,               \* the response of runpod.get_pods
    idx,                \* loop index of list_pods
    out,                \* lines printed by list_pods
    last                \* the last external call made

vars == <<pc, args, runtime, volume_mount_path, update_ssh_config, forward_agent,
          docker_args, pod_id, pod_host_id, pod_host_ids, i, pod, ip, port,
          ssh_file, error, raised, creates, polls, sleeps, elapsed, writes,
          pods, idx, out, last>>

(***************************************************************************)
(* Bounds of the model.                                                    *)
(***************************************************************************)
MaxArgsLen == 2
MaxRuntime == 3
MaxPorts == 2
MaxPods == 2

(***************************************************************************)
(* Program constants.                                                      *)
(***************************************************************************)
n_attempts == 36
SleepSeconds == 5
MinSleep == 20
SecondsPerMinute == 60
DefaultRuntime == 120

NoError == "none"
None == "None"

Max(a, b) == IF a >= b THEN a ELSE b

(***************************************************************************)
(* str(int) of a natural number, as Python formats it in an f-string.      *)
(***************************************************************************)
DigitChar == <<"0", "1", "2", "3", "4", "5", "6", "7", "8", "9">>

RECURSIVE Digits(_)
Digits(n) ==
    IF n < 10 THEN <<DigitChar[n + 1]>>
    ELSE Digits(n \div 10) \o <<DigitChar[(n % 10) + 1]>>

(***************************************************************************)
(* create_pod, lines 201-205: the startup command.                         *)
(***************************************************************************)
ArgsSegmentAlways(a) == <<" ">> \o a \o <<";">>
ArgsSegment(a) == IF a # <<>> THEN <<" ">> \o a \o <<";">> ELSE <<>>

SleepDurationNoFloor(r) == r * SecondsPerMinute
SleepDuration(r) == Max(r * SecondsPerMinute, MinSleep)

StartupCommand(a, mount, r) ==
    <<"/bin/bash", " ", "-c", " ", "'">>
        \o mount \o <<"/start.sh", ";">>
        \o ArgsSegment(a)
        \o <<" ", "sleep", " ">> \o Digits(SleepDuration(r)) \o <<";", " ">>
        \o mount \o <<"/terminate.sh", "'">>

(***************************************************************************)
(* Optional values: pod.get(key) is <<>> when it yields None.              *)
(***************************************************************************)
Nothing == <<>>
Some(x) == <<x>>

(***************************************************************************)
(* Provider responses.  A port binding carries the public-IP flag, the IP  *)
(* and the external port.  A runtime descriptor is absent from the         *)
(* response, null, or a dict whose "ports" is absent, null or a list.      *)
(***************************************************************************)
IPs == {"1.2.3.4", "10.0.0.2"}
PortNumbers == {22, 40022}
Bindings == [isIpPublic : BOOLEAN, ip : IPs, publicPort : PortNumbers]
PortLists == UNION {[1..n -> Bindings] : n \in 0..MaxPorts}

Runtime(kind, pkind, ports) == [kind |-> kind, pkind |-> pkind, ports |-> ports]
Runtimes ==
    {Runtime("absent", "absent", <<>>), Runtime("null", "absent", <<>>),
     Runtime("dict", "absent", <<>>), Runtime("dict", "null", <<>>)}
        \cup {Runtime("dict", "list", pl) : pl \in PortLists}

ApiErrors == {"ConnectionError", "AuthError"}
PodIds == <<"p1", "p2", "p3">>
HostIds == {Nothing, Some("h1")}
NoPod == [runtime |-> Runtime("absent", "absent", <<>>)]

\* pod.get("runtime") is None (line 241-242)
RuntimeIsNone(rt) == rt.kind \in {"absent", "null"}
\* runtime.get("ports") is truthy: a non-empty list
PortsTruthy(rt) == rt.pkind = "list" /\ Len(rt.ports) > 0
\* line 242: runtime is None or not runtime.get("ports")
NotProvisionedUnlessTwoPorts(p) ==
    RuntimeIsNone(p.runtime) \/ ~PortsTruthy(p.runtime) \/ Len(p.runtime.ports) < 2
NotProvisioned(p) == RuntimeIsNone(p.runtime) \/ ~PortsTruthy(p.runtime)

\* line 243: the attempt budget is used up
BudgetExhaustedLate(n) == n > n_attempts + 1
BudgetExhausted(n) == n > n_attempts

\* [b for b in ports if b["isIpPublic"]] (lines 95, 119, 251)
RECURSIVE PublicBindings(_)
PublicBindings(ports) ==
    IF ports = <<>> THEN <<>>
    ELSE (IF Head(ports).isIpPublic THEN <<Head(ports)>> ELSE <<>>)
             \o PublicBindings(Tail(ports))

\* line 252: assert len(public_ip) == 1
AtLeastOnePublic(public_ip) == Len(public_ip) >= 1
ExactlyOnePublic(public_ip) == Len(public_ip) = 1

\* lines 253-254: the binding whose ip and publicPort are reported
FirstListed(ports, public_ip) == ports[1]
ChosenBinding(ports, public_ip) == public_ip[1]

(***************************************************************************)
(* generate_ssh_config, lines 139-145.  A line of text is its number of    *)
(* leading blanks and the tokens after them.                               *)
(***************************************************************************)
Line(indent, text) == [indent |-> indent, text |-> text]

SetMin(S) == CHOOSE m \in S : \A n \in S : m <= n

\* textwrap.dedent: whitespace-only lines are emptied, the margin common to
\* the other lines is removed
Dedent(lines) ==
    LET full == {k \in 1..Len(lines) : lines[k].text # <<>>}
        margin == IF full = {} THEN 0 ELSE SetMin({lines[k].indent : k \in full})
    IN [k \in 1..Len(lines) |->
            IF lines[k].text = <<>> THEN Line(0, <<>>)
            ELSE Line(lines[k].indent - margin, lines[k].text)]

\* str.strip: leading and trailing whitespace, newlines included, is removed
Strip(lines) ==
    LET full == {k \in 1..Len(lines) : lines[k].text # <<>>}
    IN IF full = {} THEN <<>>
       ELSE LET lo == SetMin(full)
                hi == CHOOSE m \in full : \A n \in full : n <= m
            IN [k \in 1..(hi - lo + 1) |->
                    IF k = 1 THEN Line(0, lines[lo].text) ELSE lines[lo + k - 1]]

SshTemplate(ip_, port_, user, fwd) ==
    << Line(0, <<>>),
       Line(12, <<"Host", " ", "runpod">>),
       Line(14, <<"HostName", " ", ip_>>),
       Line(14, <<"User", " ", user>>),
       Line(14, <<"Port", " ">> \o Digits(port_)),
       Line(14, IF fwd THEN <<"ForwardAgent", " ", "yes">> ELSE <<>>),
       Line(8, <<>>) >>

generate_ssh_config(ip_, port_, user, fwd) ==
    Strip(Dedent(SshTemplate(ip_, port_, user, fwd)))

PriorConfig == <<Line(0, <<"Host", " ", "old">>)>>

(***************************************************************************)
(* The state before a method of RunPodManager runs.                        *)
(***************************************************************************)
Fresh ==
    /\ docker_args = <<>>
    /\ pod_id = Nothing
    /\ pod_host_id = Nothing
    /\ pod_host_ids = {}
    /\ i = 0
    /\ pod = NoPod
    /\ ip = Nothing
    /\ port = Nothing
    /\ ssh_file = PriorConfig
    /\ error = NoError
    /\ raised = NoError
    /\ creates = 0
    /\ polls = 0
    /\ sleeps = 0
    /\ elapsed = 0
    /\ writes = 0
    /\ pods = <<>>
    /\ idx = 0
    /\ out = <<>>
    /\ last = "none"

\* create_pod with the default launch parameters (lines 149-164)
Init ==
    /\ pc = "start"
    /\ args = <<>>
    /\ runtime = DefaultRuntime
    /\ volume_mount_path = <<"/ssd">>
    /\ update_ssh_config \in BOOLEAN
    /\ forward_agent \in BOOLEAN
    /\ Fresh

(***************************************************************************)
(* An exception of the provider client is not caught anywhere: the method  *)
(* ends with it.                                                           *)
(***************************************************************************)
RetryProviderError(e) == [pc |-> "poll", error |-> NoError]
ProviderError(e) == [pc |-> "failed", error |-> e]

\* lines 201-207
BuildCommand ==
    /\ pc = "start"
    /\ docker_args' = StartupCommand(args, volume_mount_path, runtime)
    /\ pc' = "create"
    /\ UNCHANGED <<args, runtime, volume_mount_path, update_ssh_config, forward_agent,
                   pod_id, pod_host_id, pod_host_ids, i, pod, ip, port, ssh_file,
                   error, raised, creates, polls, sleeps, elapsed, writes, pods,
                   idx, out, last>>

\* lines 209-238
CreatePod ==
    /\ pc = "create"
    /\ creates' = creates + 1
    /\ last' = "create_pod"
    /\ \/ \E e \in ApiErrors :
             /\ raised' = e
             /\ pc' = ProviderError(e).pc
             /\ error' = ProviderError(e).error
             /\ UNCHANGED <<pod_id, pod_host_id, pod_host_ids, i>>
       \/ \E h \in HostIds :
             /\ pod_id' = Some(PodIds[1])
             /\ pod_host_id' = h
             /\ pod_host_ids' = IF h # Nothing
                                THEN pod_host_ids \cup {<<PodIds[1], h[1]>>}
                                ELSE pod_host_ids
             /\ i' = 1
             /\ pc' = "poll"
             /\ UNCHANGED <<raised, error>>
    /\ UNCHANGED <<args, runtime, volume_mount_path, update_ssh_config, forward_agent,
                   docker_args, pod, ip, port, ssh_file, polls, sleeps, elapsed,
                   writes, pods, idx, out>>

\* lines 240-241
GetPod ==
    /\ pc = "poll"
    /\ polls' = polls + 1
    /\ last' = "get_pod"
    /\ \/ \E e \in ApiErrors :
             /\ raised' = e
             /\ pc' = ProviderError(e).pc
             /\ error' = ProviderError(e).error
             /\ UNCHANGED pod
       \/ \E rt \in Runtimes :
             /\ pod' = [runtime |-> rt]
             /\ pc' = "check"
             /\ UNCHANGED <<raised, error>>
    /\ UNCHANGED <<args, runtime, volume_mount_path, update_ssh_config, forward_agent,
                   docker_args, pod_id, pod_host_id, pod_host_ids, i, ip, port,
                   ssh_file, creates, sleeps, elapsed, writes, pods, idx, out>>

\* lines 242-248, up to the sleep
CheckPorts ==
    /\ pc = "check"
    /\ IF NotProvisioned(pod)
       THEN IF BudgetExhausted(i)
            THEN /\ pc' = "failed"
                 /\ error' = "RuntimeError"
                 /\ i' = i
            ELSE /\ i' = i + 1
                 /\ pc' = "sleep"
                 /\ error' = error
       ELSE /\ pc' = "provisioned"
            /\ UNCHANGED <<i, error>>
    /\ UNCHANGED <<args, runtime, volume_mount_path, update_ssh_config, forward_agent,
                   docker_args, pod_id, pod_host_id, pod_host_ids, pod, ip, port,
                   ssh_file, raised, creates, polls, sleeps, elapsed, writes, pods,
                   idx, out, last>>

\* line 246
Sleep ==
    /\ pc = "sleep"
    /\ sleeps' = sleeps + 1
    /\ elapsed' = elapsed + SleepSeconds
    /\ last' = "sleep"
    /\ pc' = "poll"
    /\ UNCHANGED <<args, runtime, volume_mount_path, update_ssh_config, forward_agent,
                   docker_args, pod_id, pod_host_id, pod_host_ids, i, pod, ip, port,
                   ssh_file, error, raised, creates, polls, writes, pods, idx, out>>

\* lines 250-258
ExtractPublic ==
    /\ pc = "provisioned"
    /\ LET public_ip == PublicBindings(pod.runtime.ports)
       IN IF ExactlyOnePublic(public_ip)
          THEN /\ ip' = Some(ChosenBinding(pod.runtime.ports, public_ip).ip)
               /\ port' = Some(ChosenBinding(pod.runtime.ports, public_ip).publicPort)
               /\ pc' = "present"
               /\ error' = error
          ELSE /\ pc' = "failed"
               /\ error' = "AssertionError"
               /\ UNCHANGED <<ip, port>>
    /\ UNCHANGED <<args, runtime, volume_mount_path, update_ssh_config, forward_agent,
                   docker_args, pod_id, pod_host_id, pod_host_ids, i, pod, ssh_file,
                   raised, creates, polls, sleeps, elapsed, writes, pods, idx, out,
                   last>>

\* lines 259-267; write_text fails when ~/.ssh cannot be written
UpdateSshConfig ==
    /\ pc = "present"
    /\ IF update_ssh_config
       THEN \/ /\ ssh_file' = generate_ssh_config(ip[1], port[1], "root", forward_agent)
               /\ writes' = writes + 1
               /\ last' = "write_text"
               /\ pc' = "done"
               /\ error' = error
            \/ /\ pc' = "failed"
               /\ error' = "OSError"
               /\ last' = "write_text"
               /\ UNCHANGED <<ssh_file, writes>>
       ELSE /\ pc' = "done"
            /\ UNCHANGED <<ssh_file, writes, error, last>>
    /\ UNCHANGED <<args, runtime, volume_mount_path, update_ssh_config, forward_agent,
                   docker_args, pod_id, pod_host_id, pod_host_ids, i, pod, ip, port,
                   raised, creates, polls, sleeps, elapsed, pods, idx, out>>

Next ==
    \/ BuildCommand
    \/ CreatePod
    \/ GetPod
    \/ CheckPorts
    \/ Sleep
    \/ ExtractPublic
    \/ UpdateSshConfig

Spec == Init /\ [][Next]_vars

(***************************************************************************)
(* The startup command over a range of inputs: create_pod up to line 207.  *)
(***************************************************************************)
ArgChars == {"a", " ", ";", "'"}
ArgStrings == UNION {[1..n -> ArgChars] : n \in 0..MaxArgsLen}
MountPaths == {<<"/ssd">>, <<"/workspace">>}

InitCmd ==
    /\ pc = "start"
    /\ args \in ArgStrings
    /\ runtime \in 0..MaxRuntime
    /\ volume_mount_path \in MountPaths
    /\ update_ssh_config = TRUE
    /\ forward_agent = FALSE
    /\ Fresh

NextCmd == BuildCommand

SpecCmd == InitCmd /\ [][NextCmd]_vars

(***************************************************************************)
(* list_pods, lines 87-99.  A pod of the listing has its "machine" absent, *)
(* null or a dict, and its runtime descriptor as in Runtimes.              *)
(***************************************************************************)
MachineKinds == {"absent", "null", "dict"}
ListedPod(k, m, rt) ==
    [id |-> PodIds[k], name |-> "test", desiredStatus |-> "RUNNING",
     machine |-> m, runtime |-> rt]
Listing(n, ms, rts) == [k \in 1..n |-> ListedPod(k, ms[k], rts[k])]

\* the lines print() has written when one iteration of the loop ends, and the
\* exception it ends with (lines 90-99)
PodHeader(k, p) ==
    << <<"Pod", Digits(k)>>, <<"ID", <<p.id>>>>, <<"Name", <<p.name>>>> >>
PodMachine(p) ==
    << <<"Machine Type", <<IF p.machine = "dict" THEN "NVIDIA A40" ELSE None>>>>,
       <<"Status", <<p.desiredStatus>>>> >>
PodEndpoint(b) ==
    << <<"Public IP", <<b.ip>>>>, <<"Public port", Digits(b.publicPort)>>,
       <<"", <<>>>> >>

PrintPodResult(k, p) ==
    IF p.machine = "null"
    THEN [lines |-> PodHeader(k, p), error |-> "AttributeError"]
    ELSE IF p.runtime.kind = "null"
    THEN [lines |-> PodHeader(k, p) \o PodMachine(p), error |-> "AttributeError"]
    ELSE IF p.runtime.kind = "dict" /\ p.runtime.pkind = "null"
    THEN [lines |-> PodHeader(k, p) \o PodMachine(p), error |-> "TypeError"]
    ELSE LET public_ip == PublicBindings(p.runtime.ports)
         IN IF ExactlyOnePublic(public_ip)
            THEN [lines |-> PodHeader(k, p) \o PodMachine(p)
                                \o PodEndpoint(public_ip[1]),
                  error |-> NoError]
            ELSE [lines |-> PodHeader(k, p) \o PodMachine(p),
                  error |-> "AssertionError"]

InitList ==
    /\ pc = "list_start"
    /\ args = <<>>
    /\ runtime = DefaultRuntime
    /\ volume_mount_path = <<"/ssd">>
    /\ update_ssh_config = TRUE
    /\ forward_agent = FALSE
    /\ Fresh

\* line 87
GetPods ==
    /\ pc = "list_start"
    /\ last' = "get_pods"
    /\ \/ \E e \in ApiErrors :
             /\ raised' = e
             /\ pc' = ProviderError(e).pc
             /\ error' = ProviderError(e).error
             /\ UNCHANGED <<pods, idx>>
       \/ \E n \in 0..MaxPods :
             \E ms \in [1..n -> MachineKinds], rts \in [1..n -> Runtimes] :
                /\ pods' = Listing(n, ms, rts)
                /\ idx' = 1
                /\ pc' = IF n = 0 THEN "done" ELSE "list_loop"
                /\ UNCHANGED <<raised, error>>
    /\ UNCHANGED <<args, runtime, volume_mount_path, update_ssh_config, forward_agent,
                   docker_args, pod_id, pod_host_id, pod_host_ids, i, pod, ip, port,
                   ssh_file, creates, polls, sleeps, elapsed, writes, out>>

\* lines 89-99: one iteration of the loop
PrintPod ==
    /\ pc = "list_loop"
    /\ LET r == PrintPodResult(idx, pods[idx])
       IN /\ out' = out \o r.lines
          /\ IF r.error # NoError
             THEN /\ pc' = "failed"
                  /\ error' = r.error
                  /\ idx' = idx
             ELSE /\ idx' = idx + 1
                  /\ pc' = IF idx = Len(pods) THEN "done" ELSE "list_loop"
                  /\ error' = error
    /\ UNCHANGED <<args, runtime, volume_mount_path, update_ssh_config, forward_agent,
                   docker_args, pod_id, pod_host_id, pod_host_ids, i, pod, ip, port,
                   ssh_file, raised, creates, polls, sleeps, elapsed, writes, pods,
                   last>>

NextList == GetPods \/ PrintPod

SpecList == InitList /\ [][NextList]_vars

(***************************************************************************)
(* Reading a startup command back: its ";"-separated segments inside the   *)
(* quoted argument of /bin/bash -c, and the number after "sleep".          *)
(***************************************************************************)
RECURSIVE SplitOn(_, _)
SplitOn(s, sep) ==
    IF \A k \in 1..Len(s) : s[k] # sep THEN <<s>>
    ELSE LET k == SetMin({j \in 1..Len(s) : s[j] = sep})
         IN <<SubSeq(s, 1, k - 1)>> \o SplitOn(SubSeq(s, k + 1, Len(s)), sep)

DigitVal(c) == CHOOSE d \in 0..9 : DigitChar[d + 1] = c
IsDigits(s) == s # <<>> /\ \A k \in 1..Len(s) : \E d \in 0..9 : DigitChar[d + 1] = s[k]

RECURSIVE ParseNat(_)
ParseNat(s) ==
    IF Len(s) = 1 THEN DigitVal(s[1])
    ELSE 10 * ParseNat(SubSeq(s, 1, Len(s) - 1)) + DigitVal(s[Len(s)])

Segments(cmd) == SplitOn(SubSeq(cmd, 6, Len(cmd) - 1), ";")

IsSleep(seg) ==
    /\ Len(seg) > 3
    /\ SubSeq(seg, 1, 3) = <<" ", "sleep", " ">>
    /\ IsDigits(SubSeq(seg, 4, Len(seg)))
SleepOf(seg) == ParseNat(SubSeq(seg, 4, Len(seg)))

\* the command ends with a bounded sleep followed by terminate.sh
TerminatesAfterSleep(cmd, mount) ==
    LET segs == Segments(cmd)
    IN /\ Len(segs) >= 2
       /\ IsSleep(segs[Len(segs) - 1])
       /\ segs[Len(segs)] = <<" ">> \o mount \o <<"/terminate.sh">>
SleepSecondsIn(cmd) == SleepOf(Segments(cmd)[Len(Segments(cmd)) - 1])

Built == pc = "create"

(***************************************************************************)
(* Reading a response and an SSH config back.                              *)
(***************************************************************************)
HasPorts(p) ==
    p.runtime.kind = "dict" /\ p.runtime.pkind = "list" /\ p.runtime.ports # <<>>
PublicCount(ports) == Cardinality({k \in DOMAIN ports : ports[k].isIpPublic})
ThePublic(ports) == ports[CHOOSE k \in DOMAIN ports : ports[k].isIpPublic]
ValuesOf(cfg, key) ==
    {SubSeq(cfg[k].text, 3, Len(cfg[k].text)) :
        k \in {j \in DOMAIN cfg : cfg[j].text # <<>> /\ cfg[j].text[1] = key}}

(***************************************************************************)
(* C6.  For every runtime >= 0 the number after "sleep" in the generated   *)
(* startup command is the larger of runtime * 60 and 20 (runtime = 1 gives *)
(* 60, runtime = 0 gives 20).                                              *)
(***************************************************************************)
C6_SleepIsFlooredRuntime ==
    Built =>
        /\ IsSleep(Segments(docker_args)[Len(Segments(docker_args)) - 1])
        /\ SleepSecondsIn(docker_args) =
               (IF runtime * 60 > 20 THEN runtime * 60 ELSE 20)
        /\ (runtime = 1 => SleepSecondsIn(docker_args) = 60)
        /\ (runtime = 0 => SleepSecondsIn(docker_args) = 20)

C6_Witness ==
    Built /\ runtime = 0 /\ SleepSecondsIn(docker_args) = 20

C8_RuntimeZeroDisablesTermination ==
    Built =>
        /\ (runtime = 0 => ~TerminatesAfterSleep(docker_args, volume_mount_path))
        /\ (runtime > 0 =>
               /\ TerminatesAfterSleep(docker_args, volume_mount_path)
               /\ SleepSecondsIn(docker_args) = runtime * 60)

(***************************************************************************)
(* C1.  The provisioning wait ends in Ready at the first get_pod response  *)
(* that has a runtime descriptor with a non-empty port list, however many  *)
(* polls before it found no ports: no poll and no delay follows that       *)
(* response, and it is never answered with the provisioning failure.       *)
(***************************************************************************)
C1_ReadyAtFirstPollWithPorts ==
    /\ [](HasPorts(pod) => pc \notin {"poll", "sleep"} /\ error # "RuntimeError")
    /\ [][pc = "check" /\ HasPorts(pod) => pc' = "provisioned"]_vars
    /\ [][HasPorts(pod) =>
            polls' = polls /\ sleeps' = sleeps /\ elapsed' = elapsed /\ i' = i]_vars

C1_Witness ==
    /\ pc = "provisioned"
    /\ HasPorts(pod)
    /\ polls = n_attempts + 1
    /\ sleeps = n_attempts

(***************************************************************************)
(* C2.  The wait fails exactly when 36 consecutive polls each found no     *)
(* runtime descriptor or no ports, and the wait never makes more than 36   *)
(* get_pod polls.                                                          *)
(***************************************************************************)
C2_FailsAfterThirtySixPolls ==
    /\ polls <= 36
    /\ (error = "RuntimeError" => polls = 36)

(***************************************************************************)
(* C3.  The first poll has no delay before it, every delay is 5 seconds    *)
(* and directly follows a poll that found no ports, and one invocation     *)
(* sleeps at most 36 times, 180 seconds in all, whether the wait ends in   *)
(* Ready or in Failed.                                                     *)
(***************************************************************************)
C3_DelaysBoundedAndAfterFailedPolls ==
    /\ [](/\ sleeps <= 36
          /\ elapsed = 5 * sleeps
          /\ elapsed <= 180
          /\ sleeps < polls \/ (sleeps = polls /\ pc = "poll") \/ polls = 0
          /\ (polls = 0 => sleeps = 0 /\ elapsed = 0))
    /\ [][sleeps' # sleeps =>
            /\ last = "get_pod"
            /\ raised = NoError
            /\ ~HasPorts(pod)
            /\ sleeps' = sleeps + 1
            /\ elapsed' = elapsed + 5]_vars

C3_Witness ==
    pc = "failed" /\ error = "RuntimeError" /\ sleeps = 36 /\ elapsed = 180

(***************************************************************************)
(* C4.  When the wait ends in Ready with a port list whose number of       *)
(* public bindings is not one, create_pod ends with an assertion error,    *)
(* which is not the provisioning failure, polls no more, reports no IP or  *)
(* port and does not write the SSH config file.                            *)
(***************************************************************************)
C4_IntegrityErrorWhenNotOnePublic ==
    /\ [](HasPorts(pod) /\ PublicCount(pod.runtime.ports) # 1
            /\ pc \notin {"check", "provisioned"}
          => /\ pc = "failed"
             /\ error = "AssertionError"
             /\ ip = Nothing
             /\ port = Nothing
             /\ writes = 0
             /\ ssh_file = PriorConfig)
    /\ [][HasPorts(pod) /\ PublicCount(pod.runtime.ports) # 1 =>
            polls' = polls /\ writes' = writes]_vars

C4_Witness ==
    /\ pc = "failed"
    /\ error = "AssertionError"
    /\ PublicCount(pod.runtime.ports) = 2
    /\ polls > 1

(***************************************************************************)
(* C5.  When the create call or a get_pod poll raises a transport or API   *)
(* error, create_pod ends with that same error: no provider call follows,  *)
(* the SSH config file is not written, and a poll is repeated only after a *)
(* response without a runtime descriptor or without ports.                 *)
(***************************************************************************)
C5_ProviderErrorEndsCreatePod ==
    /\ [](raised # NoError =>
             /\ pc = "failed"
             /\ error = raised
             /\ ip = Nothing
             /\ writes = 0
             /\ ssh_file = PriorConfig)
    /\ [][raised # NoError => UNCHANGED <<creates, polls, sleeps, writes>>]_vars
    /\ [][polls > 0 /\ polls' # polls => raised = NoError /\ ~HasPorts(pod)]_vars
    /\ [](creates <= 1)

C5_Witness ==
    pc = "failed" /\ raised = "AuthError" /\ error = "AuthError" /\ polls = 3

(***************************************************************************)
(* C9.  For a Ready pod with exactly one public binding, wherever it       *)
(* stands among the others, create_pod reports the IP and external port of *)
(* that binding, and the SSH config it writes when update_ssh_config is    *)
(* true has that IP as its only HostName, that port as its only Port and   *)
(* root as its User.                                                       *)
(***************************************************************************)
C9_ReportsTheOnePublicBinding ==
    (HasPorts(pod) /\ PublicCount(pod.runtime.ports) = 1
        /\ pc \notin {"check", "provisioned"})
    => LET b == ThePublic(pod.runtime.ports)
       IN /\ ip = Some(b.ip)
          /\ port = Some(b.publicPort)
          /\ (pc = "done" => writes = (IF update_ssh_config THEN 1 ELSE 0))
          /\ (writes = 0 => ssh_file = PriorConfig)
          /\ (writes > 0 =>
                /\ ssh_file[1] = Line(0, <<"Host", " ", "runpod">>)
                /\ \A k \in 2..Len(ssh_file) : ssh_file[k].indent = 2
                /\ ValuesOf(ssh_file, "HostName") = {<<b.ip>>}
                /\ {ParseNat(v) : v \in ValuesOf(ssh_file, "Port")} = {b.publicPort}
                /\ ValuesOf(ssh_file, "User") = {<<"root">>}
                /\ (ValuesOf(ssh_file, "ForwardAgent") # {}) = forward_agent)

C9_Witness ==
    /\ pc = "done"
    /\ writes = 1
    /\ Len(pod.runtime.ports) = 2
    /\ ~pod.runtime.ports[1].isIpPublic
    /\ pod.runtime.ports[2] = [isIpPublic |-> TRUE, ip |-> "1.2.3.4", publicPort |-> 40022]
    /\ ip = Some("1.2.3.4")
    /\ port = Some(40022)
    /\ ValuesOf(ssh_file, "HostName") = {<<"1.2.3.4">>}
    /\ ValuesOf(ssh_file, "Port") = {<<"4", "0", "0", "2", "2">>}

(***************************************************************************)
(* C10.  list_pods lists all pods: for every listing the provider returns, *)
(* pods without a runtime descriptor or without a public binding included, *)
(* it ends without an error and has printed the ID, name, machine type and *)
(* status of every pod, in order.                                          *)
(***************************************************************************)
IsIdLine(l) == l[1] = "ID"
IsNameLine(l) == l[1] = "Name"
IsMachineLine(l) == l[1] = "Machine Type"
IsStatusLine(l) == l[1] = "Status"

C10_ListsEveryPod ==
    (pc \in {"done", "failed"} /\ raised = NoError) =>
        /\ error = NoError
        /\ SelectSeq(out, IsIdLine) = [k \in 1..Len(pods) |-> <<"ID", <<pods[k].id>>>>]
        /\ Len(SelectSeq(out, IsNameLine)) = Len(pods)
        /\ Len(SelectSeq(out, IsMachineLine)) = Len(pods)
        /\ Len(SelectSeq(out, IsStatusLine)) = Len(pods)

====
